---- MODULE Spec2Model ----
(***************************************************************************)
(* ORCA output viewer: the parsing and bond-inference engine of            *)
(* services/orcaParser.ts (parseOrcaFiles, parseOutputFile,                *)
(* parseHessianFile, calculateBonds).                                      *)
(*                                                                         *)
(* Conventions.                                                            *)
(*  - A text line is a tuple whose first component names what the line     *)
(*    matches (the marker or regular expression of the scanner) and whose  *)
(*    other components are the fields the scanner extracts from it.        *)
(*  - An element symbol is a sequence of one-character strings, so that    *)
(*    charAt / toUpperCase / toLowerCase are computed, not assumed.        *)
(*  - Coordinates are integers in units of 0.001 Angstroem; radii and      *)
(*    reference bond lengths are integers in units of 0.01 Angstroem, as   *)
(*    the tables of the source write them. Math.sqrt is modelled exactly:  *)
(*    d <= t is decided as d*d <= t*t on integers.                         *)
(*  - JavaScript arrays are sequences; array index k is position k+1.      *)
(***************************************************************************)
EXTENDS Integers, Sequences, FiniteSets, TLC

VARIABLES
    combinedData,     \* the aggregate record of parseOrcaFiles
    pc,               \* "loop" | "output" | "hessian" | "returned" | "rejected"
    fileNo,           \* number of files taken from the input list so far
    fileName,         \* suffix of the current file's name: ".hess" or ".out"
    hasMarker,        \* whether the current file's content includes "$ir_spectrum"
    lines,            \* the lines of the current file read so far (lines[0..i-1])
    skip,             \* lines the scanner still jumps over (i += 1; continue)
    inCoords,         \* parseOutputFile locals
    tempAtoms,
    readingIR,
    readingMulliken,
    readingLoewdin,
    readingOrbitals,
    section           \* parseHessianFile local

vars == <<combinedData, pc, fileNo, fileName, hasMarker, lines, skip, inCoords,
          tempAtoms, readingIR, readingMulliken, readingLoewdin, readingOrbitals,
          section>>

scanVars == <<inCoords, tempAtoms, readingIR, readingMulliken, readingLoewdin,
              readingOrbitals>>

(***************************************************************************)
(* Bounds of the model.                                                    *)
(***************************************************************************)
MaxFiles == 2
MaxLines == 7
MaxAtoms == 3

(***************************************************************************)
(* Strings as character sequences.                                         *)
(***************************************************************************)
LowerLetters == <<"a","b","c","d","e","f","g","h","i","j","k","l","m",
                  "n","o","p","q","r","s","t","u","v","w","x","y","z">>
UpperLetters == <<"A","B","C","D","E","F","G","H","I","J","K","L","M",
                  "N","O","P","Q","R","S","T","U","V","W","X","Y","Z">>

UpperOf == [c \in { LowerLetters[i] : i \in 1..26 } |->
               UpperLetters[CHOOSE i \in 1..26 : LowerLetters[i] = c]]
LowerOf == [c \in { UpperLetters[i] : i \in 1..26 } |->
               LowerLetters[CHOOSE i \in 1..26 : UpperLetters[i] = c]]

CharUpper(c) == IF c \in DOMAIN UpperOf THEN UpperOf[c] ELSE c
CharLower(c) == IF c \in DOMAIN LowerOf THEN LowerOf[c] ELSE c

toUpperCase(s) == [i \in 1..Len(s) |-> CharUpper(s[i])]

\* el.charAt(0).toUpperCase() + el.slice(1).toLowerCase()
Capitalize(el) ==
    [i \in 1..Len(el) |-> IF i = 1 THEN CharUpper(el[i]) ELSE CharLower(el[i])]

(***************************************************************************)
(* calculateBonds: the tables.                                             *)
(***************************************************************************)
\* Covalent radii, 0.01 Angstroem. Each entry is <<key, radius>>.
radii == {
    << <<"H">>, 31 >>,      << <<"H","e">>, 28 >>,
    << <<"L","i">>, 128 >>, << <<"B","e">>, 96 >>,  << <<"B">>, 84 >>,
    << <<"C">>, 76 >>,      << <<"N">>, 71 >>,      << <<"O">>, 66 >>,
    << <<"F">>, 57 >>,      << <<"N","e">>, 58 >>,
    << <<"N","a">>, 166 >>, << <<"M","g">>, 141 >>, << <<"A","l">>, 121 >>,
    << <<"S","i">>, 111 >>, << <<"P">>, 107 >>,     << <<"S">>, 105 >>,
    << <<"C","l">>, 102 >>, << <<"A","r">>, 106 >>,
    << <<"K">>, 203 >>,     << <<"C","a">>, 176 >>, << <<"S","c">>, 170 >>,
    << <<"T","i">>, 160 >>, << <<"V">>, 153 >>,     << <<"C","r">>, 139 >>,
    << <<"M","n">>, 139 >>, << <<"F","e">>, 132 >>, << <<"C","o">>, 126 >>,
    << <<"N","i">>, 124 >>, << <<"C","u">>, 132 >>, << <<"Z","n">>, 122 >>,
    << <<"G","a">>, 122 >>, << <<"G","e">>, 120 >>, << <<"A","s">>, 119 >>,
    << <<"S","e">>, 120 >>, << <<"B","r">>, 120 >>, << <<"K","r">>, 116 >>,
    << <<"D","E","F","A","U","L","T">>, 150 >> }

HasRadius(key) == \E e \in radii : e[1] = key
RadiusOf(key)  == (CHOOSE e \in radii : e[1] = key)[2]

\* radii[key] || radii[el.toUpperCase()] || radii.DEFAULT  (no entry is 0)
getRadiusCarbonDefault(el) ==
    IF HasRadius(Capitalize(el)) THEN RadiusOf(Capitalize(el))
    ELSE IF HasRadius(toUpperCase(el)) THEN RadiusOf(toUpperCase(el))
    ELSE RadiusOf(<<"C">>)

getRadius(el) ==
    IF HasRadius(Capitalize(el)) THEN RadiusOf(Capitalize(el))
    ELSE IF HasRadius(toUpperCase(el)) THEN RadiusOf(toUpperCase(el))
    ELSE RadiusOf(<<"D","E","F","A","U","L","T">>)

\* Reference bond lengths, 0.01 Angstroem: <<outer key, inner key, single,
\* double, triple>>; 0 stands for a length the table leaves out (undefined,
\* which the code tests for truthiness).
bondRef == {
    << <<"C">>, <<"C">>, 154, 134, 120 >>,
    << <<"C">>, <<"N">>, 147, 128, 116 >>,
    << <<"C">>, <<"O">>, 143, 120, 113 >>,
    << <<"C">>, <<"S">>, 182, 160, 0 >>,
    << <<"C">>, <<"H">>, 109, 0, 0 >>,
    << <<"C">>, <<"F">>, 135, 0, 0 >>,
    << <<"C">>, <<"C","L">>, 177, 0, 0 >>,
    << <<"C">>, <<"B","R">>, 194, 0, 0 >>,
    << <<"C">>, <<"I">>, 214, 0, 0 >>,
    << <<"N">>, <<"N">>, 145, 125, 110 >>,
    << <<"N">>, <<"O">>, 140, 120, 0 >>,
    << <<"N">>, <<"H">>, 101, 0, 0 >>,
    << <<"O">>, <<"O">>, 148, 121, 0 >>,
    << <<"O">>, <<"H">>, 96, 0, 0 >>,
    << <<"H">>, <<"H">>, 74, 0, 0 >> }

HasRef(k1, k2) == \E e \in bondRef : e[1] = k1 /\ e[2] = k2
RefOf(k1, k2) ==
    LET e == CHOOSE e \in bondRef : e[1] = k1 /\ e[2] = k2
    IN  [single |-> e[3], double |-> e[4], triple |-> e[5]]

\* The result is <<>> for null and <<info>> for an entry.
getBondOrderInfoOneWay(el1, el2) ==
    IF HasRef(Capitalize(el1), Capitalize(el2))
    THEN << RefOf(Capitalize(el1), Capitalize(el2)) >>
    ELSE << >>

getBondOrderInfo(el1, el2) ==
    LET e1 == Capitalize(el1)
        e2 == Capitalize(el2)
    IN  IF HasRef(e1, e2) THEN << RefOf(e1, e2) >>
        ELSE IF HasRef(e2, e1) THEN << RefOf(e2, e1) >>
        ELSE << >>

(***************************************************************************)
(* calculateBonds: the pair loop.                                          *)
(***************************************************************************)
\* dx*dx + dy*dy + dz*dz, in (0.001 A)^2
DistSq(a1, a2) ==
    (a1.x - a2.x) * (a1.x - a2.x) + (a1.y - a2.y) * (a1.y - a2.y)
        + (a1.z - a2.z) * (a1.z - a2.z)

\* dist <= t, for a threshold t given in units of 0.0001 Angstroem
DistLeq(dsq, t) == 100 * dsq <= t * t

\* (r1 + r2) * 1.15 + 0.1, in units of 0.0001 Angstroem
connectivityLimitNoBuffer(r1, r2) == (r1 + r2) * 115

connectivityLimit(r1, r2) == (r1 + r2) * 115 + 1000

\* The bond order heuristic of lines 396-407, for a pair already connected.
bondOrderDoubleFirst(info, dsq) ==
    IF info = << >> THEN 1
    ELSE IF info[1].double # 0
              /\ DistLeq(dsq, (info[1].single + info[1].double) * 50)
         THEN 2
         ELSE IF info[1].triple # 0
                   /\ DistLeq(dsq, IF info[1].double # 0
                                   THEN (info[1].double + info[1].triple) * 50
                                   ELSE (info[1].triple + 10) * 100)
              THEN 3
              ELSE 1

bondOrder(info, dsq) ==
    IF info = << >> THEN 1
    ELSE IF info[1].triple # 0
              /\ DistLeq(dsq, IF info[1].double # 0
                              THEN (info[1].double + info[1].triple) * 50
                              ELSE (info[1].triple + 10) * 100)
         THEN 3
         ELSE IF info[1].double # 0
                   /\ DistLeq(dsq, (info[1].single + info[1].double) * 50)
              THEN 2
              ELSE 1

\* The pairs the two loops visit, in the order they visit them (0-based).
PairsAllOrdered(n) ==
    [k \in 1..(n * n) |-> << (k - 1) \div n, (k - 1) % n >>]

PairsOf(n) ==
    SelectSeq([k \in 1..(n * n) |-> << (k - 1) \div n, (k - 1) % n >>],
              LAMBDA p : p[1] < p[2])

Connected(a1, a2) ==
    DistLeq(DistSq(a1, a2),
            connectivityLimit(getRadius(a1.element), getRadius(a2.element)))

calculateBonds(atoms) ==
    LET hit(p) == Connected(atoms[p[1] + 1], atoms[p[2] + 1])
        mk(p)  == [source |-> p[1], target |-> p[2],
                   order  |-> bondOrder(getBondOrderInfo(atoms[p[1] + 1].element,
                                                         atoms[p[2] + 1].element),
                                        DistSq(atoms[p[1] + 1], atoms[p[2] + 1]))]
        ps     == SelectSeq(PairsOf(Len(atoms)), hit)
    IN  [k \in 1..Len(ps) |-> mk(ps[k])]


(***************************************************************************)
(* Lines. Each kind stands for the text the program that writes the file   *)
(* prints (given in quotes), and carries the values the scanner's          *)
(* parseFloat / parseInt read from it.                                     *)
(*   <<"coords">>     "CARTESIAN COORDINATES (ANGSTROEM)"                  *)
(*   <<"au">>         "CARTESIAN COORDINATES (A.U.)"                       *)
(*   <<"internal">>   "INTERNAL COORDINATES (ANGSTROEM)"                   *)
(*   <<"blank">>      ""                                                    *)
(*   <<"dashes">>     "------------------------------"                      *)
(*   <<"text">>       one or two words, no colon, no marker                 *)
(*   <<"atom", el, x, y, z>>               "H   0.000  0.000  0.740"        *)
(*   <<"energy", e>>                       "FINAL SINGLE POINT ENERGY  e"   *)
(*   <<"irStart">>                         "Mode  freq  eps  Int  T**2 ..." *)
(*   <<"irRow", mode, freq, eps, int>>     "6:  44.92  0.0001  0.50 ..."    *)
(*   <<"thermo", field, v>>                "Total Enthalpy ... v Eh" etc.   *)
(*   <<"mullikenStart">>                   "MULLIKEN ATOMIC CHARGES"        *)
(*   <<"loewdinStart">>                    "LOEWDIN ATOMIC CHARGES"         *)
(*   <<"chargeRow", idx, el, q>>           "0 C :   -0.453858"              *)
(*   <<"sum">>                             "Sum of atomic charges: -0.0"    *)
(*   <<"scf", e>>                          "Total Energy  :  e Eh  ... eV"  *)
(*   <<"dipole", x, y, z>>                 "Total Dipole Moment : x y z"    *)
(*   <<"orbitalStart">>                    "ORBITAL ENERGIES"               *)
(*   <<"orbitalRow", no, occ, eh, ev>>     "0  2.0000  -19.18  -521.92"     *)
(*   <<"$ir_spectrum">>, <<"$normal_modes">>, <<"$end">>                    *)
(*   <<"$block">>                          "$dipole_derivatives", "$atoms"  *)
(*   <<"hessRow", freq, int>>              "44.92  0.0001  0.50 ..."        *)
(* A value is an integer in the unit of its field (0.001 A, 0.01 cm^-1,    *)
(* 0.01 K, ...), or NaN when the text is no number.                        *)
(***************************************************************************)
Kind(line) == line[1]

\* The result of parseFloat / parseInt on a text that is no number. It is
\* never used in arithmetic or in an order comparison without the guard
\* JavaScript's semantics gives (every comparison with NaN is false).
NaN == -999999

isNaN(v) == v = NaN

\* a === b on numbers
StrictEq(a, b) == a # NaN /\ b # NaN /\ a = b

H == <<"H">>

AtomLines   == { <<"atom", H, 0, 0, 0>>, <<"atom", H, 0, 0, 740>> }
Energies    == { -1, -2 }
EnergyLines == { <<"energy", e>> : e \in Energies }

OutputLines ==
    { <<"coords">>, <<"au">>, <<"internal">>, <<"blank">>, <<"dashes">>, <<"text">> }
        \cup AtomLines \cup EnergyLines

\* Frequencies in 0.01 cm^-1, intensities in 0.01 km/mol.
HessRows     == { <<"hessRow", 4492, 50>>, <<"hessRow", 4495, 60>> }
HessianLines == { <<"$ir_spectrum">>, <<"$end">>, <<"$normal_modes">>, <<"text">> }
                    \cup HessRows

\* What the code can still read of a line once the scan has passed it: the
\* energy value the look-back of line 97 finds in it, and the block marker
\* content.includes finds in it.
Seen(line) ==
    IF Kind(line) \in {"energy", "$ir_spectrum"} THEN line ELSE <<"text">>

(***************************************************************************)
(* parseOutputFile: one iteration of the loop over the lines.              *)
(* A scanner state s carries the aggregate and the locals; s.cont tells    *)
(* that the iteration has ended with `continue`, s.skip how many further   *)
(* lines the iteration jumped over.                                        *)
(***************************************************************************)
LookBack == 100

\* lines.slice(Math.max(0, i - 100), i)
Window(prev) ==
    SubSeq(prev, IF Len(prev) > LookBack THEN Len(prev) - LookBack + 1 ELSE 1,
           Len(prev))

\* .match(/FINAL SINGLE POINT ENERGY\s+([-\d.]+)/): the first match in the
\* window; 0 when there is none.
WindowEnergy(prev) ==
    LET w  == Window(prev)
        ks == { k \in 1..Len(w) : Kind(w[k]) = "energy" }
    IN  IF ks = {} THEN 0
        ELSE w[CHOOSE k \in ks : \A j \in ks : k <= j][2]

\* data.trajectory.push({cycle: data.trajectory.length, energy, gradient: 0,
\*                       coordinates: [...tempAtoms]}); data.atoms = [...tempAtoms]
PushStepCycleFromOne(data, atoms, energy) ==
    [data EXCEPT
        !.trajectory = Append(@, [cycle       |-> Len(data.trajectory) + 1,
                                  energy      |-> energy,
                                  gradient    |-> 0,
                                  coordinates |-> atoms]),
        !.atoms = atoms]

\* A variant that pushes the step and leaves data.atoms as it was.
PushStepTrajectoryOnly(data, atoms, energy) ==
    [data EXCEPT
        !.trajectory = Append(@, [cycle       |-> Len(data.trajectory),
                                  energy      |-> energy,
                                  gradient    |-> 0,
                                  coordinates |-> atoms])]

PushStep(data, atoms, energy) ==
    [data EXCEPT
        !.trajectory = Append(@, [cycle       |-> Len(data.trajectory),
                                  energy      |-> energy,
                                  gradient    |-> 0,
                                  coordinates |-> atoms]),
        !.atoms = atoms]

\* lines 85-91
sCoordsHeader(s, line) ==
    IF Kind(line) = "coords"
    THEN [s EXCEPT !.inCoords = TRUE, !.tempAtoms = << >>,
                   !.skip = 1, !.cont = TRUE]
    ELSE s

\* lines 93-109
sAltHeader(s, line, prev) ==
    IF s.cont \/ Kind(line) \notin {"au", "internal"} THEN s
    ELSE IF s.tempAtoms # << >>
         THEN [s EXCEPT !.inCoords = FALSE,
                        !.data = PushStep(s.data, s.tempAtoms, WindowEnergy(prev))]
         ELSE [s EXCEPT !.inCoords = FALSE]

\* A variant that numbers the atoms from 1.
sCoordLineIndexFromOne(s, line) ==
    IF s.cont \/ ~s.inCoords THEN s
    ELSE IF Kind(line) = "atom"
         THEN [s EXCEPT !.tempAtoms =
                   Append(@, [index   |-> Len(s.tempAtoms) + 1,
                              element |-> line[2],
                              x |-> line[3], y |-> line[4], z |-> line[5]])]
         ELSE IF Kind(line) \in {"blank", "dashes"} /\ s.tempAtoms # << >>
              THEN [s EXCEPT !.inCoords = FALSE]
              ELSE s

\* lines 111-125
sCoordLine(s, line) ==
    IF s.cont \/ ~s.inCoords THEN s
    ELSE IF Kind(line) = "atom"
         THEN [s EXCEPT !.tempAtoms =
                   Append(@, [index   |-> Len(s.tempAtoms),
                              element |-> line[2],
                              x |-> line[3], y |-> line[4], z |-> line[5]])]
         ELSE IF Kind(line) \in {"blank", "dashes"} /\ s.tempAtoms # << >>
              THEN [s EXCEPT !.inCoords = FALSE]
              ELSE s

\* lines 127-132
sIRStart(s, line) ==
    IF ~s.cont /\ Kind(line) = "irStart"
    THEN [s EXCEPT !.readingIR = TRUE, !.skip = 1, !.cont = TRUE]
    ELSE s

\* lines 134-152. Of the kinds above only an IR row has four or more
\* fields of which the first holds a colon.
sIRRow(s, line) ==
    IF s.cont \/ ~s.readingIR THEN s
    ELSE IF Kind(line) \in {"blank", "dashes"} THEN [s EXCEPT !.readingIR = FALSE]
    ELSE IF Kind(line) = "irRow"
              /\ ~\E k \in 1..Len(s.data.vibrations) :
                      StrictEq(s.data.vibrations[k].mode, line[2])
              /\ line[3] # 0
         THEN [s EXCEPT !.data.vibrations =
                   Append(@, [mode |-> line[2], frequency |-> line[3],
                              intensity |-> line[5], vectors |-> << >>])]
         ELSE s

\* lines 154-169; temperature in 0.01 K
DefaultTemperature == 29815

NewThermo ==
    [enthalpy |-> 0, entropy |-> 0, gibbsFreeEnergy |-> 0, zpe |-> 0,
     temperature |-> DefaultTemperature]

\* A variant that starts a new record at every thermo line.
sThermoFresh(s, line) ==
    IF s.cont \/ Kind(line) # "thermo" THEN s
    ELSE [s EXCEPT !.data.thermo = << [NewThermo EXCEPT ![line[2]] = line[3]] >>]

\* lines 160-169
sThermo(s, line) ==
    IF s.cont \/ Kind(line) # "thermo" THEN s
    ELSE LET t == IF s.data.thermo = << >> THEN NewThermo ELSE s.data.thermo[1]
         IN  [s EXCEPT !.data.thermo = << [t EXCEPT ![line[2]] = line[3]] >>]

\* What line.split(':') and parts[0].trim().split(/\s+/) give for a line
\* read inside a charge table: << >> for a line that adds nothing (not
\* exactly one colon, or fewer than two fields before it), else the record
\* pushed.
ChargeRecord(line) ==
    CASE Kind(line) = "chargeRow" ->
            << [atomIndex |-> line[2], element |-> line[3], charge |-> line[4]] >>
      [] Kind(line) = "dipole" ->
            << [atomIndex |-> NaN, element |-> <<"D","i","p","o","l","e">>,
                charge |-> line[2]] >>
      [] Kind(line) = "scf" ->
            << [atomIndex |-> NaN, element |-> <<"E","n","e","r","g","y">>,
                charge |-> line[2]] >>
      [] OTHER -> << >>

\* lines 171-177
sMullikenStart(s, line) ==
    IF ~s.cont /\ Kind(line) = "mullikenStart"
    THEN [s EXCEPT !.readingMulliken = TRUE, !.data.mullikenCharges = << >>,
                   !.skip = 1, !.cont = TRUE]
    ELSE s

\* lines 178-195
sMullikenRow(s, line) ==
    IF s.cont \/ ~s.readingMulliken THEN s
    ELSE IF Kind(line) \in {"blank", "sum"} THEN [s EXCEPT !.readingMulliken = FALSE]
    ELSE IF Kind(line) # "dashes"
         THEN [s EXCEPT !.data.mullikenCharges = @ \o ChargeRecord(line)]
         ELSE s

\* lines 197-202
sLoewdinStart(s, line) ==
    IF ~s.cont /\ Kind(line) = "loewdinStart"
    THEN [s EXCEPT !.readingLoewdin = TRUE, !.data.loewdinCharges = << >>,
                   !.skip = 1, !.cont = TRUE]
    ELSE s

\* lines 203-220
sLoewdinRow(s, line) ==
    IF s.cont \/ ~s.readingLoewdin THEN s
    ELSE IF Kind(line) \in {"blank", "sum"} THEN [s EXCEPT !.readingLoewdin = FALSE]
    ELSE IF Kind(line) # "dashes"
         THEN [s EXCEPT !.data.loewdinCharges = @ \o ChargeRecord(line)]
         ELSE s

\* lines 222-229
sScf(s, line) ==
    IF ~s.cont /\ Kind(line) = "scf" /\ ~isNaN(line[2])
    THEN [s EXCEPT !.data.scfConvergence =
              Append(@, [iteration |-> Len(s.data.scfConvergence) + 1,
                         energy |-> line[2]])]
    ELSE s

\* lines 231-239. magnitudeSq holds x*x + y*y + z*z, the square of the
\* magnitude the code stores.
sDipole(s, line) ==
    IF ~s.cont /\ Kind(line) = "dipole"
    THEN [s EXCEPT !.data.dipoleMoment =
              << [x |-> line[2], y |-> line[3], z |-> line[4],
                  magnitudeSq |-> line[2] * line[2] + line[3] * line[3]
                                      + line[4] * line[4]] >>]
    ELSE s

\* lines 241-247
sOrbitalStart(s, line) ==
    IF ~s.cont /\ Kind(line) = "orbitalStart"
    THEN [s EXCEPT !.readingOrbitals = TRUE, !.data.orbitals = << >>,
                   !.skip = 3, !.cont = TRUE]
    ELSE s

\* What line.trim().split(/\s+/) gives for a line read inside the orbital
\* table: << >> for a line that adds nothing (fewer than four fields, or a
\* first field parseInt cannot read), else the record pushed.
OrbitalRecord(line) ==
    CASE Kind(line) = "orbitalRow" /\ ~isNaN(line[2]) ->
            << [no |-> line[2], occupancy |-> line[3], energyEh |-> line[4],
                energyEV |-> line[5]] >>
      [] Kind(line) = "irRow" /\ ~isNaN(line[2]) ->
            << [no |-> line[2], occupancy |-> line[3], energyEh |-> line[4],
                energyEV |-> line[5]] >>
      [] Kind(line) = "chargeRow" /\ ~isNaN(line[2]) ->
            << [no |-> line[2], occupancy |-> NaN, energyEh |-> NaN,
                energyEV |-> line[4]] >>
      [] OTHER -> << >>

\* lines 248-264
sOrbitalRow(s, line) ==
    IF s.cont \/ ~s.readingOrbitals THEN s
    ELSE IF Kind(line) \in {"blank", "dashes"} THEN [s EXCEPT !.readingOrbitals = FALSE]
    ELSE [s EXCEPT !.data.orbitals = @ \o OrbitalRecord(line)]

\* The body of the loop, in the order of the code.
ScanResult(s, line, prev) ==
    LET s1  == sCoordsHeader(s, line)
        s2  == sAltHeader(s1, line, prev)
        s3  == sCoordLine(s2, line)
        s4  == sIRStart(s3, line)
        s5  == sIRRow(s4, line)
        s6  == sThermo(s5, line)
        s7  == sMullikenStart(s6, line)
        s8  == sMullikenRow(s7, line)
        s9  == sLoewdinStart(s8, line)
        s10 == sLoewdinRow(s9, line)
        s11 == sScf(s10, line)
        s12 == sDipole(s11, line)
        s13 == sOrbitalStart(s12, line)
    IN  sOrbitalRow(s13, line)

(***************************************************************************)
(* parseHessianFile: one iteration of the loop over the lines.             *)
(***************************************************************************)
\* Math.abs(v.frequency - freq) < 0.1, frequencies in 0.01 cm^-1
FreqTolerance == 10

Abs(n) == IF n < 0 THEN 0 - n ELSE n

\* Variants of the row handler that the properties must tell from it: one
\* pushes whatever the list holds, one gives a matched record the new
\* intensity.
hessRowAlwaysPush(data, freq, intensity) ==
    IF ~isNaN(freq) /\ freq > 0
    THEN [data EXCEPT !.vibrations =
              Append(@, [mode |-> Len(data.vibrations) + 6, frequency |-> freq,
                         intensity |-> intensity, vectors |-> << >>])]
    ELSE data

hessRowOverwrite(data, freq, intensity) ==
    IF ~isNaN(freq) /\ freq > 0
    THEN IF \E k \in 1..Len(data.vibrations) :
                /\ ~isNaN(data.vibrations[k].frequency)
                /\ Abs(data.vibrations[k].frequency - freq) < FreqTolerance
         THEN [data EXCEPT !.vibrations =
                  [k \in 1..Len(data.vibrations) |->
                      IF Abs(data.vibrations[k].frequency - freq) < FreqTolerance
                      THEN [data.vibrations[k] EXCEPT !.intensity = intensity]
                      ELSE data.vibrations[k]]]
         ELSE [data EXCEPT !.vibrations =
                  Append(@, [mode |-> Len(data.vibrations) + 6, frequency |-> freq,
                             intensity |-> intensity, vectors |-> << >>])]
    ELSE data

\* A variant without the test of the sign of the frequency.
hessRowAnySign(data, freq, intensity) ==
    IF ~isNaN(freq)
       /\ ~\E k \in 1..Len(data.vibrations) :
               /\ ~isNaN(data.vibrations[k].frequency)
               /\ Abs(data.vibrations[k].frequency - freq) < FreqTolerance
    THEN [data EXCEPT !.vibrations =
              Append(@, [mode      |-> Len(data.vibrations) + 6,
                         frequency |-> freq,
                         intensity |-> intensity,
                         vectors   |-> << >>])]
    ELSE data

\* lines 301-320: a row read inside the $ir_spectrum block
hessRowResult(data, freq, intensity) ==
    IF ~isNaN(freq) /\ freq > 0
       /\ ~\E k \in 1..Len(data.vibrations) :
               /\ ~isNaN(data.vibrations[k].frequency)
               /\ Abs(data.vibrations[k].frequency - freq) < FreqTolerance
    THEN [data EXCEPT !.vibrations =
              Append(@, [mode      |-> Len(data.vibrations) + 6,
                         frequency |-> freq,
                         intensity |-> intensity,
                         vectors   |-> << >>])]
    ELSE data

(***************************************************************************)
(* The blocks of the input, as the text defines them: a record of what was *)
(* read, kept beside the program's state and never read by it. A block     *)
(* opens at a Cartesian marker (the header line after it belongs to the    *)
(* marker), takes the atom lines that follow, and ends at a blank or       *)
(* dashed line once it holds an atom, at an alternate-coordinate header,   *)
(* at the next marker, or at the end of the file.                          *)
(***************************************************************************)
VARIABLES
    blocks,     \* sequence of [atoms, open, by]
    linesRead,  \* lines read in the session so far, all files together
    supplied,   \* what the input has supplied so far (never read by the program)
    app,        \* the state of the App component around the call (onDrop)
    orders      \* two sessions on one pair of files, in the two orders

allVars == <<vars, blocks, linesRead, supplied, app, orders>>

CloseLast(bs, how) ==
    IF bs # << >> /\ bs[Len(bs)].open
    THEN [bs EXCEPT ![Len(bs)] = [@ EXCEPT !.open = FALSE, !.by = how]]
    ELSE bs

BlocksAfter(bs, line) ==
    CASE Kind(line) = "coords" ->
            Append(CloseLast(bs, "marker"), [atoms |-> << >>, open |-> TRUE, by |-> "none"])
      [] Kind(line) \in {"au", "internal"} -> CloseLast(bs, "header")
      [] Kind(line) = "atom" /\ bs # << >> /\ bs[Len(bs)].open ->
            [bs EXCEPT ![Len(bs)].atoms = Append(@, <<line[2], line[3], line[4], line[5]>>)]
      [] Kind(line) \in {"blank", "dashes"} /\ bs # << >> /\ bs[Len(bs)].atoms # << >> ->
            CloseLast(bs, "blank")
      [] OTHER -> bs

(***************************************************************************)
(* What the input has supplied, kept beside the program's state:           *)
(*   entries   the <<frequency, intensity>> of every row read inside an IR *)
(*             table of an output file or inside a $ir_spectrum block;     *)
(*   dipole    the x, y, z of the last dipole line read (<< >> if none);   *)
(*   thermo    for each thermochemistry field, the last value read;        *)
(*   markers   the collections of which a marker line has occurred;        *)
(*   readError whether the read of a file has failed.                      *)
(***************************************************************************)
NoneSupplied ==
    [entries |-> {}, dipole |-> << >>, thermo |-> << >>, markers |-> {},
     readError |-> FALSE]

MarkersOf(line) ==
    CASE Kind(line) = "coords"                      -> {"trajectory"}
      [] Kind(line) \in {"irStart", "$ir_spectrum"} -> {"vibrations"}
      [] Kind(line) = "mullikenStart"               -> {"mullikenCharges"}
      [] Kind(line) = "loewdinStart"                -> {"loewdinCharges"}
      [] Kind(line) = "orbitalStart"                -> {"orbitals"}
      [] Kind(line) = "scf"                         -> {"scfConvergence"}
      [] OTHER                                      -> {}

\* thermo is a sequence of <<field, value>> pairs, one per field read, in
\* the order of the first read of the field.
ThermoAfter(th, field, v) ==
    IF \E k \in 1..Len(th) : th[k][1] = field
    THEN [k \in 1..Len(th) |-> IF th[k][1] = field THEN <<field, v>> ELSE th[k]]
    ELSE Append(th, <<field, v>>)

SuppliedAfterSkip(sup, line) == [sup EXCEPT !.markers = @ \cup MarkersOf(line)]

SuppliedAfterScan(sup, inTable, line) ==
    [sup EXCEPT
        !.markers = @ \cup MarkersOf(line),
        !.entries = IF inTable /\ Kind(line) = "irRow" /\ ~isNaN(line[3])
                    THEN @ \cup { <<line[3], line[5]>> } ELSE @,
        !.dipole  = IF Kind(line) = "dipole" THEN <<line[2], line[3], line[4]>> ELSE @,
        !.thermo  = IF Kind(line) = "thermo" THEN ThermoAfter(@, line[2], line[3]) ELSE @]

SuppliedAfterHess(sup, sec, line) ==
    [sup EXCEPT
        !.markers = @ \cup MarkersOf(line),
        !.entries = IF sec = "ir_spectrum" /\ Kind(line) = "hessRow" /\ ~isNaN(line[2])
                    THEN @ \cup { <<line[2], line[3]>> } ELSE @]

(***************************************************************************)
(* The App component around the call (App.tsx, onDrop): data is << >> for  *)
(* null and <<record>> once set; error is whether a message is set.        *)
(***************************************************************************)
\* useState initial values, then setLoading(true); setError(null)
AppDropped == [data |-> << >>, loading |-> TRUE, error |-> FALSE, currentStep |-> 0]

\* the try branch after the await, then finally
AppResolved(a, result) ==
    [a EXCEPT !.data = << result >>,
              !.currentStep = IF Len(result.trajectory) > 0
                              THEN Len(result.trajectory) - 1 ELSE 0,
              !.loading = FALSE]

\* the catch branch, then finally
AppRejected(a) == [a EXCEPT !.error = TRUE, !.loading = FALSE]

(***************************************************************************)
(* The state after construction (lines 5-14) and the actions.              *)
(***************************************************************************)
\* thermo and dipoleMoment are optional fields: << >> while the record has
\* no such key, a one-element sequence once it is set.
EmptyData ==
    [atoms |-> << >>, bonds |-> << >>, trajectory |-> << >>, vibrations |-> << >>,
     mullikenCharges |-> << >>, loewdinCharges |-> << >>, scfConvergence |-> << >>,
     orbitals |-> << >>, thermo |-> << >>, dipoleMoment |-> << >>]

\* No pair of files is compared in the session.
NoPair == [parsed |-> FALSE, output |-> << >>, hessian |-> << >>,
           outputFirst |-> << >>, hessianFirst |-> << >>]

Init ==
    /\ combinedData = EmptyData
    /\ pc = "loop"
    /\ fileNo = 0
    /\ fileName = ".out"
    /\ hasMarker = FALSE
    /\ lines = << >>
    /\ skip = 0
    /\ inCoords = FALSE
    /\ tempAtoms = << >>
    /\ readingIR = FALSE
    /\ readingMulliken = FALSE
    /\ readingLoewdin = FALSE
    /\ readingOrbitals = FALSE
    /\ section = ""
    /\ blocks = << >>
    /\ linesRead = 0
    /\ supplied = NoneSupplied
    /\ app = AppDropped
    /\ orders = NoPair

\* The session reads at most MaxLines lines.
CanRead == linesRead < MaxLines

\* A variant that routes by the name alone.
RouteByNameOnly(name, marker) == IF name = ".hess" THEN "hessian" ELSE "output"

\* lines 26-35: the next file is read and routed; the parser's locals are
\* those of a fresh call.
Route(name, marker) == IF name = ".hess" \/ marker THEN "hessian" ELSE "output"

ReadFile(name, marker) ==
    /\ pc = "loop"
    /\ fileNo < MaxFiles
    /\ fileNo' = fileNo + 1
    /\ fileName' = name
    /\ hasMarker' = marker
    /\ pc' = Route(name, marker)
    /\ lines' = << >>
    /\ skip' = 0
    /\ inCoords' = FALSE
    /\ tempAtoms' = << >>
    /\ readingIR' = FALSE
    /\ readingMulliken' = FALSE
    /\ readingLoewdin' = FALSE
    /\ readingOrbitals' = FALSE
    /\ section' = ""
    /\ UNCHANGED <<combinedData, blocks, linesRead, supplied, app, orders>>

\* A variant that passes over the file that cannot be read.
OnReadErrorSkipFile(a) == [pc |-> "loop", app |-> a]

\* line 27: the read of the next file fails (reader.onerror rejects the
\* promise of readFile). The await throws, the promise of parseOrcaFiles
\* rejects, and onDrop's catch and finally run.
OnReadError(a) == [pc |-> "rejected", app |-> AppRejected(a)]

ReadFails ==
    /\ pc = "loop"
    /\ fileNo < MaxFiles
    /\ fileNo' = fileNo + 1
    /\ supplied' = [supplied EXCEPT !.readError = TRUE]
    /\ pc' = OnReadError(app).pc
    /\ app' = OnReadError(app).app
    /\ UNCHANGED <<combinedData, fileName, hasMarker, lines, skip, scanVars, section,
                   blocks, linesRead, orders>>

\* parseOutputFile, a line the loop jumps over (i += 1 before continue)
SkipLine(line) ==
    /\ pc = "output"
    /\ skip > 0
    /\ CanRead
    /\ skip' = skip - 1
    /\ lines' = Append(lines, Seen(line))
    /\ linesRead' = linesRead + 1
    /\ supplied' = SuppliedAfterSkip(supplied, line)
    /\ UNCHANGED <<combinedData, pc, fileNo, fileName, hasMarker, scanVars, section, blocks,
                   app, orders>>

\* parseOutputFile, one iteration of the loop (lines 81-266)
ScanLine(line) ==
    /\ pc = "output"
    /\ skip = 0
    /\ CanRead
    /\ LET s0 == [data |-> combinedData, inCoords |-> inCoords,
                  tempAtoms |-> tempAtoms, readingIR |-> readingIR,
                  readingMulliken |-> readingMulliken,
                  readingLoewdin |-> readingLoewdin,
                  readingOrbitals |-> readingOrbitals, skip |-> 0, cont |-> FALSE]
           s  == ScanResult(s0, line, lines)
       IN  /\ combinedData' = s.data
           /\ inCoords' = s.inCoords
           /\ tempAtoms' = s.tempAtoms
           /\ readingIR' = s.readingIR
           /\ readingMulliken' = s.readingMulliken
           /\ readingLoewdin' = s.readingLoewdin
           /\ readingOrbitals' = s.readingOrbitals
           /\ skip' = s.skip
    /\ lines' = Append(lines, Seen(line))
    /\ blocks' = BlocksAfter(blocks, line)
    /\ linesRead' = linesRead + 1
    /\ supplied' = SuppliedAfterScan(supplied, readingIR, line)
    /\ UNCHANGED <<pc, fileNo, fileName, hasMarker, section, app, orders>>

\* parseOutputFile, after the loop (lines 268-277), and the return to the
\* loop over the files
EndOutputResult(data) ==
    IF inCoords /\ tempAtoms # << >> THEN PushStep(data, tempAtoms, 0) ELSE data

EndOutput ==
    /\ pc = "output"
    /\ combinedData' = EndOutputResult(combinedData)
    /\ pc' = "loop"
    /\ lines' = << >>
    /\ skip' = 0
    /\ inCoords' = FALSE
    /\ tempAtoms' = << >>
    /\ readingIR' = FALSE
    /\ readingMulliken' = FALSE
    /\ readingLoewdin' = FALSE
    /\ readingOrbitals' = FALSE
    /\ blocks' = CloseLast(blocks, "eof")
    /\ fileName' = ".out"
    /\ hasMarker' = FALSE
    /\ UNCHANGED <<fileNo, section, linesRead, supplied, app, orders>>

\* The body of the loop of parseHessianFile (lines 285-322); h carries the
\* aggregate, the section and how many further lines the iteration jumps over.
HessResult(h, line) ==
    CASE Kind(line) = "$ir_spectrum"  -> [h EXCEPT !.section = "ir_spectrum", !.skip = 1]
      [] Kind(line) = "$normal_modes" -> [h EXCEPT !.section = "normal_modes", !.skip = 1]
      [] Kind(line) = "$end"          -> [h EXCEPT !.section = "", !.skip = 0]
      [] OTHER ->
            IF h.section = "ir_spectrum" /\ Kind(line) = "hessRow"
            THEN [h EXCEPT !.data = hessRowResult(h.data, line[2], line[3]), !.skip = 0]
            ELSE [h EXCEPT !.skip = 0]

\* parseHessianFile, a line the loop jumps over (i++ before continue)
HessSkip(line) ==
    /\ pc = "hessian"
    /\ skip > 0
    /\ CanRead
    /\ hasMarker \/ Kind(line) # "$ir_spectrum"
    /\ skip' = skip - 1
    /\ lines' = Append(lines, Seen(line))
    /\ linesRead' = linesRead + 1
    /\ supplied' = SuppliedAfterSkip(supplied, line)
    /\ UNCHANGED <<combinedData, pc, fileNo, fileName, hasMarker, scanVars, section, blocks,
                   app, orders>>

\* parseHessianFile, one iteration of the loop (lines 285-322)
HessLine(line) ==
    /\ pc = "hessian"
    /\ skip = 0
    /\ CanRead
    /\ hasMarker \/ Kind(line) # "$ir_spectrum"
    /\ lines' = Append(lines, Seen(line))
    /\ linesRead' = linesRead + 1
    /\ LET h == HessResult([data |-> combinedData, section |-> section, skip |-> 0],
                           line)
       IN  /\ combinedData' = h.data
           /\ section' = h.section
           /\ skip' = h.skip
    /\ supplied' = SuppliedAfterHess(supplied, section, line)
    /\ UNCHANGED <<pc, fileNo, fileName, hasMarker, scanVars, blocks, app, orders>>

\* parseHessianFile returns; the content holds the marker the routing found
EndHessian ==
    /\ pc = "hessian"
    /\ hasMarker => \E k \in 1..Len(lines) : Kind(lines[k]) = "$ir_spectrum"
    /\ pc' = "loop"
    /\ lines' = << >>
    /\ skip' = 0
    /\ section' = ""
    /\ fileName' = ".out"
    /\ hasMarker' = FALSE
    /\ UNCHANGED <<combinedData, fileNo, scanVars, blocks, linesRead, supplied, app, orders>>

\* lines 37-42: the loop over the files is over
BondsSourceFirstStep(data) ==
    IF data.trajectory # << >> THEN data.trajectory[1].coordinates ELSE data.atoms

BondsSource(data) == data.atoms

ReturnResult(data) ==
    IF Len(data.atoms) > 0
    THEN [data EXCEPT !.bonds = calculateBonds(BondsSource(data))]
    ELSE data

Return ==
    /\ pc = "loop"
    /\ combinedData' = ReturnResult(combinedData)
    /\ pc' = "returned"
    /\ app' = AppResolved(app, ReturnResult(combinedData))
    /\ UNCHANGED <<fileNo, fileName, hasMarker, lines, skip, scanVars, section, blocks,
                   linesRead, supplied, orders>>

Next ==
    \/ \E name \in {".out", ".hess"}, marker \in BOOLEAN : ReadFile(name, marker)
    \/ ReadFails
    \/ \E line \in OutputLines : SkipLine(line)
    \/ \E line \in OutputLines : ScanLine(line)
    \/ EndOutput
    \/ \E line \in HessianLines : HessSkip(line)
    \/ \E line \in HessianLines : HessLine(line)
    \/ EndHessian
    \/ Return

Spec == Init /\ [][Next]_allVars


(***************************************************************************)
(* Sessions of vibration data: output files that hold IR tables and        *)
(* hessian files that hold $ir_spectrum blocks, in any order. Frequencies  *)
(* in 0.01 cm^-1: 44.92, 44.95 (0.03 from the first), 45.00, 45.08 (0.08   *)
(* from 45.00, 0.16 from 44.92) and 1600.00.                               *)
(***************************************************************************)
VibIRRows ==
    { <<"irRow", 6, 4492, 1, 50>>, <<"irRow", 6, 160000, 1, 65>>,
      <<"irRow", 7, 4508, 1, 55>> }

VibOutputLines == { <<"irStart">>, <<"blank">>, <<"text">> } \cup VibIRRows

VibHessRows ==
    { <<"hessRow", 4492, 50>>, <<"hessRow", 4495, 60>>, <<"hessRow", 4500, 70>>,
      <<"hessRow", 4508, 80>> }

VibHessianLines == { <<"$ir_spectrum">>, <<"$end">>, <<"text">> } \cup VibHessRows

NextVib ==
    \/ \E name \in {".out", ".hess"}, marker \in BOOLEAN : ReadFile(name, marker)
    \/ ReadFails
    \/ \E line \in VibOutputLines : SkipLine(line)
    \/ \E line \in VibOutputLines : ScanLine(line)
    \/ EndOutput
    \/ \E line \in VibHessianLines : HessSkip(line)
    \/ \E line \in VibHessianLines : HessLine(line)
    \/ EndHessian
    \/ Return

SpecVib == Init /\ [][NextVib]_allVars


(***************************************************************************)
(* Sessions of output files that hold coordinate blocks, dipole lines and  *)
(* thermochemistry lines, and of hessian files, in any order.              *)
(***************************************************************************)
MergeOutputLines ==
    { <<"coords">>, <<"au">>, <<"blank">>, <<"dipole", 1, 2, 3>>, <<"dipole", 4, 5, 6>>,
      <<"thermo", "enthalpy", -7>>, <<"thermo", "enthalpy", -8>>,
      <<"thermo", "temperature", 30000>> } \cup AtomLines

NextMerge ==
    \/ \E name \in {".out", ".hess"}, marker \in BOOLEAN : ReadFile(name, marker)
    \/ ReadFails
    \/ \E line \in MergeOutputLines : SkipLine(line)
    \/ \E line \in MergeOutputLines : ScanLine(line)
    \/ EndOutput
    \/ \E line \in HessianLines : HessSkip(line)
    \/ \E line \in HessianLines : HessLine(line)
    \/ EndHessian
    \/ Return

SpecMerge == Init /\ [][NextMerge]_allVars


(***************************************************************************)
(* The frontier orbitals as OrbitalEnergyPlot derives them from the        *)
(* orbital list (ConvergencePlot.tsx); energies in 0.01 eV, so that        *)
(* toFixed(2) of a difference is the difference.                           *)
(***************************************************************************)
\* orbitals.filter(o => o.occupancy > 0)
Occupied(orbitals) ==
    SelectSeq(orbitals, LAMBDA o : ~isNaN(o.occupancy) /\ o.occupancy > 0)

\* orbitals.filter(o => o.occupancy > 0).pop()?.no || 0
homoIndex(orbitals) ==
    IF Occupied(orbitals) = << >> THEN 0
    ELSE Occupied(orbitals)[Len(Occupied(orbitals))].no

\* orbitals.find(o => o.no === n): << >> for undefined
findNo(orbitals, n) ==
    IF \E k \in 1..Len(orbitals) : StrictEq(orbitals[k].no, n)
    THEN << orbitals[CHOOSE k \in 1..Len(orbitals) :
                        /\ StrictEq(orbitals[k].no, n)
                        /\ \A j \in 1..(k - 1) : ~StrictEq(orbitals[j].no, n)] >>
    ELSE << >>

\* homo && lumo ? (lumo.energyEV - homo.energyEV).toFixed(2) : '?'
\* << >> stands for '?'
gap(orbitals) ==
    LET homo == findNo(orbitals, homoIndex(orbitals))
        lumo == findNo(orbitals, homoIndex(orbitals) + 1)
    IN  IF homo # << >> /\ lumo # << >>
        THEN IF isNaN(lumo[1].energyEV) \/ isNaN(homo[1].energyEV)
             THEN << NaN >>
             ELSE << lumo[1].energyEV - homo[1].energyEV >>
        ELSE << >>

(***************************************************************************)
(* Sessions of output files that hold orbital tables.                      *)
(***************************************************************************)
OrbitalRows ==
    { <<"orbitalRow", 0, 2, -1900, -50000>>, <<"orbitalRow", 1, 2, -1100, -30000>>,
      <<"orbitalRow", 1, 0, 400, 10000>>, <<"orbitalRow", 2, 0, 700, 20000>> }

OrbOutputLines == { <<"orbitalStart">>, <<"blank">>, <<"text">> } \cup OrbitalRows

NextOrb ==
    \/ \E name \in {".out", ".hess"}, marker \in BOOLEAN : ReadFile(name, marker)
    \/ ReadFails
    \/ \E line \in OrbOutputLines : SkipLine(line)
    \/ \E line \in OrbOutputLines : ScanLine(line)
    \/ EndOutput
    \/ \E line \in HessianLines : HessSkip(line)
    \/ \E line \in HessianLines : HessLine(line)
    \/ EndHessian
    \/ Return

SpecOrb == Init /\ [][NextOrb]_allVars


(***************************************************************************)
(* Sessions of output files that hold IR tables and Mulliken charge        *)
(* tables, with rows of which a numeric field does not parse as a number.  *)
(***************************************************************************)
SecIRRows ==
    { <<"irRow", 6, 4492, 1, 50>>, <<"irRow", 6, 160000, 1, 65>>,
      <<"irRow", 7, NaN, 1, 55>> }

SecChargeRows ==
    { <<"chargeRow", 0, <<"C">>, -45>>, <<"chargeRow", 1, <<"H">>, NaN>> }

SecOutputLines ==
    { <<"irStart">>, <<"mullikenStart">>, <<"blank">>, <<"text">> }
        \cup SecIRRows \cup SecChargeRows

SecHessianLines ==
    { <<"$ir_spectrum">>, <<"$end">>, <<"$normal_modes">>, <<"text">> }

NextSections ==
    \/ \E name \in {".out", ".hess"}, marker \in BOOLEAN : ReadFile(name, marker)
    \/ ReadFails
    \/ \E line \in SecOutputLines : SkipLine(line)
    \/ \E line \in SecOutputLines : ScanLine(line)
    \/ EndOutput
    \/ \E line \in SecHessianLines : HessSkip(line)
    \/ \E line \in SecHessianLines : HessLine(line)
    \/ EndHessian
    \/ Return

SpecSections == Init /\ [][NextSections]_allVars


(***************************************************************************)
(* Sessions of hessian files with further blocks and with rows of zero and *)
(* negative frequency, after output files that leave data of every kind.   *)
(***************************************************************************)
BlockOutputLines ==
    { <<"coords">>, <<"blank">>, <<"atom", H, 0, 0, 0>>, <<"irStart">>, <<"irRow", 6, 4492, 1, 50>>,
      <<"thermo", "enthalpy", -7>>, <<"dipole", 1, 2, 3>> }

BlockHessRows ==
    { <<"hessRow", 4492, 55>>, <<"hessRow", 160000, 60>>, <<"hessRow", 0, 10>>,
      <<"hessRow", -5000, 70>> }

BlockHessianLines ==
    { <<"$ir_spectrum">>, <<"$end">>, <<"$normal_modes">>, <<"$block">>, <<"text">> }
        \cup BlockHessRows

NextBlocks ==
    \/ \E name \in {".out", ".hess"}, marker \in BOOLEAN : ReadFile(name, marker)
    \/ ReadFails
    \/ \E line \in BlockOutputLines : SkipLine(line)
    \/ \E line \in BlockOutputLines : ScanLine(line)
    \/ EndOutput
    \/ \E line \in BlockHessianLines : HessSkip(line)
    \/ \E line \in BlockHessianLines : HessLine(line)
    \/ EndHessian
    \/ Return

SpecBlocks == Init /\ [][NextBlocks]_allVars


(***************************************************************************)
(* parseOrcaFiles as a function of the list of files, each [name, content] *)
(* with the content a sequence of lines: the loops above, run to their     *)
(* end.                                                                    *)
(***************************************************************************)
RECURSIVE ScanFrom(_, _, _)
\* parseOutputFile, the loop from line i on
ScanFrom(s, content, i) ==
    IF i > Len(content) THEN s
    ELSE LET r == ScanResult([s EXCEPT !.skip = 0, !.cont = FALSE], content[i],
                             [k \in 1..(i - 1) |-> Seen(content[k])])
         IN  ScanFrom(r, content, i + 1 + r.skip)

parseOutputFile(content, data) ==
    LET s == ScanFrom([data |-> data, inCoords |-> FALSE, tempAtoms |-> << >>,
                       readingIR |-> FALSE, readingMulliken |-> FALSE,
                       readingLoewdin |-> FALSE, readingOrbitals |-> FALSE,
                       skip |-> 0, cont |-> FALSE], content, 1)
    IN  IF s.inCoords /\ s.tempAtoms # << >>
        THEN PushStep(s.data, s.tempAtoms, 0)
        ELSE s.data

RECURSIVE HessFrom(_, _, _)
\* parseHessianFile, the loop from line i on
HessFrom(h, content, i) ==
    IF i > Len(content) THEN h
    ELSE LET r == HessResult([h EXCEPT !.skip = 0], content[i])
         IN  HessFrom(r, content, i + 1 + r.skip)

parseHessianFile(content, data) ==
    HessFrom([data |-> data, section |-> "", skip |-> 0], content, 1).data

RECURSIVE FilesFrom(_, _, _)
\* the loop over the files (lines 26-35), from file k on
FilesFrom(data, files, k) ==
    IF k > Len(files) THEN data
    ELSE LET content == files[k].content
             marker  == \E j \in 1..Len(content) : Kind(content[j]) = "$ir_spectrum"
         IN  FilesFrom(IF Route(files[k].name, marker) = "hessian"
                       THEN parseHessianFile(content, data)
                       ELSE parseOutputFile(content, data),
                       files, k + 1)

parseOrcaFiles(files) == ReturnResult(FilesFrom(EmptyData, files, 1))

(***************************************************************************)
(* An output file and its companion hessian file, both written from one    *)
(* list of normal modes: the modes are numbered from `first` (5 for a      *)
(* linear molecule, 6 otherwise) and their frequencies ascend; a negative  *)
(* frequency is an imaginary mode. The output file prints one IR row per   *)
(* mode, the hessian file `first` rows of frequency 0 and one row per mode.*)
(***************************************************************************)
MaxModes == 3

PairFrequencies == { -5000, 4492, 4495, 160000 }

NormalModes ==
    { m \in [first : {5, 6},
             freqs : UNION { [1..n -> PairFrequencies] : n \in 1..MaxModes }] :
        \A k \in 1..(Len(m.freqs) - 1) : m.freqs[k] <= m.freqs[k + 1] }

OutputOf(m) ==
    [name    |-> ".out",
     content |-> << <<"irStart">>, <<"text">> >>
                 \o [k \in 1..Len(m.freqs) |->
                        <<"irRow", m.first + k - 1, m.freqs[k], 1, 50>>]
                 \o << <<"blank">> >>]

HessianOf(m) ==
    [name    |-> ".hess",
     content |-> << <<"$ir_spectrum">>, <<"text">> >>
                 \o [k \in 1..m.first |-> <<"hessRow", 0, 0>>]
                 \o [k \in 1..Len(m.freqs) |-> <<"hessRow", m.freqs[k], 50>>]
                 \o << <<"$end">> >>]

InitOrders ==
    /\ combinedData = EmptyData
    /\ pc = "loop"
    /\ fileNo = 0
    /\ fileName = ".out"
    /\ hasMarker = FALSE
    /\ lines = << >>
    /\ skip = 0
    /\ inCoords = FALSE
    /\ tempAtoms = << >>
    /\ readingIR = FALSE
    /\ readingMulliken = FALSE
    /\ readingLoewdin = FALSE
    /\ readingOrbitals = FALSE
    /\ section = ""
    /\ blocks = << >>
    /\ linesRead = 0
    /\ supplied = NoneSupplied
    /\ app = AppDropped
    /\ \E m \in NormalModes :
           orders = [NoPair EXCEPT !.output = OutputOf(m), !.hessian = HessianOf(m)]

\* The two sessions on the pair, one per order of the files
ParseBothOrders ==
    /\ ~orders.parsed
    /\ orders' = [orders EXCEPT
                     !.parsed = TRUE,
                     !.outputFirst =
                         parseOrcaFiles(<<orders.output, orders.hessian>>).vibrations,
                     !.hessianFirst =
                         parseOrcaFiles(<<orders.hessian, orders.output>>).vibrations]
    /\ UNCHANGED <<vars, blocks, linesRead, supplied, app>>

NextOrders == ParseBothOrders

SpecOrders == InitOrders /\ [][NextOrders]_allVars


(***************************************************************************)
(* Bond inference on its own: the state in which the loop over the files   *)
(* has ended after one output file whose single coordinate block ran to    *)
(* the end of the file, for every atom list of the bounded pool; the only  *)
(* step left is the post-processing of lines 37-42.                        *)
(***************************************************************************)
BondElements == { <<"C">>, <<"O">>, <<"c","l">>, <<"X","x">> }

\* Points of one straight line, at 0, 1.200, 2.470, 3.550 and 3.970 A from
\* the first, so that the distances of the pairs are 0.420, 1.080, 1.200,
\* 1.270, 1.500, 2.350, 2.470, 2.770, 3.550 and 3.970 A.
BondPoints == { <<0, 0, 0>>, <<720, 960, 0>>, <<1482, 1976, 0>>,
                <<2130, 2840, 0>>, <<2382, 3176, 0>> }

AtomPool == { <<e, p>> : e \in BondElements, p \in BondPoints }

AtomsOf(f) ==
    [k \in 1..Len(f) |-> [index |-> k - 1, element |-> f[k][1],
                          x |-> f[k][2][1], y |-> f[k][2][2], z |-> f[k][2][3]]]

InitBonds ==
    \E n \in 1..MaxAtoms : \E f \in [1..n -> AtomPool] :
        /\ \A i, j \in 1..n : i # j => f[i][2] # f[j][2]   \* no two atoms at one point
        /\ combinedData =
               [EmptyData EXCEPT
                   !.atoms = AtomsOf(f),
                   !.trajectory = << [cycle |-> 0, energy |-> 0, gradient |-> 0,
                                      coordinates |-> AtomsOf(f)] >>]
        /\ blocks = << [atoms |-> [k \in 1..n |-> <<f[k][1], f[k][2][1], f[k][2][2],
                                                    f[k][2][3]>>],
                        open |-> FALSE, by |-> "eof"] >>
        /\ linesRead = n + 2
        /\ pc = "loop"
        /\ fileNo = 1
        /\ fileName = ".out"
        /\ hasMarker = FALSE
        /\ lines = << >>
        /\ skip = 0
        /\ inCoords = FALSE
        /\ tempAtoms = << >>
        /\ readingIR = FALSE
        /\ readingMulliken = FALSE
        /\ readingLoewdin = FALSE
        /\ readingOrbitals = FALSE
        /\ section = ""
        /\ supplied = [NoneSupplied EXCEPT !.markers = {"trajectory"}]
        /\ app = AppDropped
        /\ orders = NoPair

NextBonds == Return

SpecBonds == InitBonds /\ [][NextBonds]_allVars


(***************************************************************************)
(* Properties of the bond inference (checked under SpecBonds).             *)
(***************************************************************************)
Atoms == combinedData.atoms
Bonds == combinedData.bonds
Returned == pc = "returned"

\* Two symbols are the same element, whatever their letter case.
SameSymbol(a, b) == toUpperCase(a) = toUpperCase(b)

DefaultKey == <<"D","E","F","A","U","L","T">>

\* The tables read without regard to letter case (the DEFAULT entry of the
\* radius table is no element).
RadiusEntries == { <<toUpperCase(e[1]), e[2]>> : e \in { r \in radii : r[1] # DefaultKey } }
RefSymbols == UNION { {toUpperCase(e[1]), toUpperCase(e[2])} : e \in bondRef }

InRadiusTable(el) == \E e \in RadiusEntries : e[1] = toUpperCase(el)
InRefTable(el) == toUpperCase(el) \in RefSymbols

\* The covalent radius of the claim: the table's, 1.5 A for any other symbol.
TableRadius(el) ==
    IF InRadiusTable(el)
    THEN (CHOOSE e \in RadiusEntries : e[1] = toUpperCase(el))[2]
    ELSE 150

\* d <= (ra + rb) * 1.15 + 0.1, with d in 0.001 A and radii in 0.01 A
WithinLimit(dsq, ra, rb) ==
    100 * dsq <= ((ra + rb) * 115 + 1000) * ((ra + rb) * 115 + 1000)

\* The order of the bond between the atoms at positions i < j; 0 for no bond.
OrderIn(bs, i, j) ==
    IF \E k \in 1..Len(bs) : bs[k].source = i - 1 /\ bs[k].target = j - 1
    THEN bs[CHOOSE k \in 1..Len(bs) : bs[k].source = i - 1 /\ bs[k].target = j - 1].order
    ELSE 0

\* C5: every bond has 0 <= source < target < N, and no unordered pair of
\* atoms has more than one bond.
C5_BondIndices ==
    /\ \A k \in 1..Len(Bonds) :
          /\ 0 <= Bonds[k].source
          /\ Bonds[k].source < Bonds[k].target
          /\ Bonds[k].target < Len(Atoms)
    /\ \A k, l \in 1..Len(Bonds) :
          k # l => {Bonds[k].source, Bonds[k].target} # {Bonds[l].source, Bonds[l].target}

C5_Witness == Returned /\ Len(Atoms) = 3 /\ Len(Bonds) = 3

\* C6: after the inference, atoms i and j are bonded if and only if their
\* distance is at most (r_i + r_j) * 1.15 + 0.1, r being the table's radius
\* and 1.5 for a symbol the table does not hold.
C6_Connectivity ==
    Returned =>
        \A i, j \in 1..Len(Atoms) :
            i < j =>
                ((OrderIn(Bonds, i, j) # 0)
                    <=> WithinLimit(DistSq(Atoms[i], Atoms[j]),
                                    TableRadius(Atoms[i].element),
                                    TableRadius(Atoms[j].element)))

\* Both outcomes: a bond exactly at the limit (Xx-Xx at 3.55 A) and a pair
\* with carbon that is too far apart.
C6_Witness ==
    /\ Returned
    /\ \E i, j \in 1..Len(Atoms) :
          /\ i < j /\ OrderIn(Bonds, i, j) # 0
          /\ Atoms[i].element = <<"X","x">> /\ Atoms[j].element = <<"X","x">>
          /\ DistSq(Atoms[i], Atoms[j]) = 3550 * 3550
    /\ \E i, j \in 1..Len(Atoms) :
          i < j /\ OrderIn(Bonds, i, j) = 0 /\ Atoms[j].element = <<"C">>

\* The reference lengths of the claim for a pair, in either element order:
\* the set of table entries for the two symbols (empty or one entry).
RefUpper == { <<toUpperCase(e[1]), toUpperCase(e[2]), e[3], e[4], e[5]>> : e \in bondRef }

RefEntries(a, b) ==
    { e \in RefUpper : \/ e[1] = toUpperCase(a) /\ e[2] = toUpperCase(b)
                       \/ e[1] = toUpperCase(b) /\ e[2] = toUpperCase(a) }

\* d <= (p + q) / 2 and d <= p + 0.1, lengths p, q in 0.01 A, d in 0.001 A
AtOrBelowMid(dsq, p, q) == 4 * dsq <= (10 * (p + q)) * (10 * (p + q))
AtOrBelowPlus(dsq, p)   == dsq <= (10 * p + 100) * (10 * p + 100)

RuleOrder(a, b, dsq) ==
    IF RefEntries(a, b) = {} THEN 1
    ELSE LET e == CHOOSE e \in RefEntries(a, b) : TRUE
             single == e[3]
             double == e[4]
             triple == e[5]
         IN  IF triple # 0 /\ (IF double # 0 THEN AtOrBelowMid(dsq, double, triple)
                                             ELSE AtOrBelowPlus(dsq, triple))
             THEN 3
             ELSE IF double # 0 /\ AtOrBelowMid(dsq, single, double) THEN 2
             ELSE 1

\* C7: every bond's order follows the reference-length rule (3 at or below
\* the double/triple midpoint, else 2 at or below the single/double
\* midpoint, else 1; 1 without a table entry), and a C-C pair at 1.20 A has
\* order 3.
C7_BondOrder ==
    Returned =>
        \A k \in 1..Len(Bonds) :
            LET a == Atoms[Bonds[k].source + 1]
                b == Atoms[Bonds[k].target + 1]
            IN  /\ Bonds[k].order = RuleOrder(a.element, b.element, DistSq(a, b))
                /\ (a.element = <<"C">> /\ b.element = <<"C">>
                        /\ DistSq(a, b) = 1200 * 1200) => Bonds[k].order = 3

\* A C-C bond at 1.20 A of order 3 beside a bond of order 2 (C-O at 1.27 A).
C7_Witness ==
    /\ Returned
    /\ \E k \in 1..Len(Bonds) :
          /\ Atoms[Bonds[k].source + 1].element = <<"C">>
          /\ Atoms[Bonds[k].target + 1].element = <<"C">>
          /\ DistSq(Atoms[Bonds[k].source + 1], Atoms[Bonds[k].target + 1]) = 1200 * 1200
          /\ Bonds[k].order = 3
    /\ \E k \in 1..Len(Bonds) : Bonds[k].order = 2

\* The atom list with the atoms at positions i and j exchanged.
Swapped(as, i, j) ==
    [k \in 1..Len(as) |->
        [as[IF k = i THEN j ELSE IF k = j THEN i ELSE k] EXCEPT !.index = k - 1]]

Lo(p, q) == IF p < q THEN p ELSE q
Hi(p, q) == IF p < q THEN q ELSE p

\* C8: exchanging two atoms of the input list changes no bond's existence
\* or order: the bond (or its absence) between any two atoms is the same
\* in the result for the exchanged list as in the result returned.
C8_Symmetric ==
    Returned =>
        \A i, j \in 1..Len(Atoms) :
            i < j =>
                LET perm(k) == IF k = i THEN j ELSE IF k = j THEN i ELSE k
                    other   == calculateBonds(Swapped(Atoms, i, j))
                IN  \A p, q \in 1..Len(Atoms) :
                        p < q =>
                            OrderIn(Bonds, p, q)
                                = OrderIn(other, Lo(perm(p), perm(q)), Hi(perm(p), perm(q)))

\* An O, C pair (the table holds it as C, O only) with a multiple bond.
C8_Witness ==
    /\ Returned
    /\ Len(Atoms) >= 2
    /\ Atoms[1].element = <<"O">> /\ Atoms[2].element = <<"C">>
    /\ OrderIn(Bonds, 1, 2) >= 2

\* C9: an atom whose symbol is in neither table is connected with the
\* default radius 1.5 A, and every bond it takes part in has order 1.
Unknown(el) == ~InRadiusTable(el) /\ ~InRefTable(el)

C9_UnknownElement ==
    Returned =>
        \A i, j \in 1..Len(Atoms) :
            (i < j /\ (Unknown(Atoms[i].element) \/ Unknown(Atoms[j].element))) =>
                LET ri == IF Unknown(Atoms[i].element) THEN 150
                          ELSE TableRadius(Atoms[i].element)
                    rj == IF Unknown(Atoms[j].element) THEN 150
                          ELSE TableRadius(Atoms[j].element)
                IN  /\ (OrderIn(Bonds, i, j) # 0)
                            <=> WithinLimit(DistSq(Atoms[i], Atoms[j]), ri, rj)
                    /\ OrderIn(Bonds, i, j) \in {0, 1}

\* An unknown symbol bonded to carbon at 1.20 A (where C-C would be triple),
\* and an unknown symbol with no bond at all.
C9_Witness ==
    /\ Returned
    /\ \E i, j \in 1..Len(Atoms) :
          /\ i < j
          /\ Atoms[i].element = <<"X","x">> /\ Atoms[j].element = <<"C">>
          /\ DistSq(Atoms[i], Atoms[j]) = 1200 * 1200
          /\ OrderIn(Bonds, i, j) = 1
    /\ \E i \in 1..Len(Atoms) :
          /\ Atoms[i].element = <<"X","x">>
          /\ \A k \in 1..Len(Bonds) :
                Bonds[k].source # i - 1 /\ Bonds[k].target # i - 1


(***************************************************************************)
(* Properties of the parse session (checked under Spec).                   *)
(***************************************************************************)
Trajectory == combinedData.trajectory

\* No file is being parsed: the loop over the files is between two files,
\* or over.
Parsed == pc \in {"loop", "returned"}

\* An atom as the input wrote it: element and coordinates.
Written(atoms) ==
    [k \in 1..Len(atoms) |-> <<atoms[k].element, atoms[k].x, atoms[k].y, atoms[k].z>>]

BlocksWithAtoms == { k \in 1..Len(blocks) : blocks[k].atoms # << >> }

\* C1: once the files are parsed, the trajectory has exactly one step per
\* coordinate block that holds at least one atom line, whatever closed the
\* block.
C1_OneStepPerBlock ==
    Parsed => Len(Trajectory) = Cardinality(BlocksWithAtoms)

\* The blocks that were completed as C2 names it: closed by an empty or
\* dashed line, by an alternate-coordinate header or by the end of the file.
CompletedBlocks ==
    { k \in BlocksWithAtoms : blocks[k].by \in {"blank", "header", "eof"} }

\* C2: once the files are parsed, data.atoms is the atom list of the last
\* completed coordinate block that holds at least one atom.
C2_AtomsAreLastBlock ==
    (Parsed /\ CompletedBlocks # {}) =>
        Written(Atoms)
            = blocks[CHOOSE k \in CompletedBlocks : \A l \in CompletedBlocks : l <= k].atoms

\* C3: trajectory[i].cycle = i for every index i (0-based), in every state.
C3_CyclesDense ==
    \A k \in 1..Len(Trajectory) : Trajectory[k].cycle = k - 1

\* Two steps, pushed from two different files.
C3_Witness ==
    /\ fileNo = 2
    /\ pc = "loop"
    /\ Len(Trajectory) = 2
    /\ Trajectory[1].coordinates # Trajectory[2].coordinates

\* C4: when an output text whose last line is FINAL SINGLE POINT ENERGY e
\* has been parsed, the step that was pushed last before that line carries
\* the energy e. (The steps pushed before the last line are those of the
\* trajectory when the scan reaches the end of the text; the text is the
\* first file of the session, so that every step comes from it.)
C4_EnergyToLastStep ==
    [][ \A e \in Energies :
          (/\ pc = "output" /\ pc' = "loop"
           /\ fileNo = 1
           /\ lines # << >> /\ lines[Len(lines)] = <<"energy", e>>
           /\ Trajectory # << >>)
            => combinedData'.trajectory[Len(Trajectory)].energy = e ]_allVars

\* C10: bonds is empty until parseOrcaFiles returns, whatever line is
\* parsed, and in the returned record it is the bond inference of the final
\* atoms (empty when there are none).
C10_BondsDerived ==
    /\ ~Returned => Bonds = << >>
    /\ Returned => Bonds = (IF Atoms = << >> THEN << >> ELSE calculateBonds(Atoms))

\* The atoms of the returned record come from the second file, differ from
\* those of the first step, and are bonded.
C10_Witness ==
    /\ Returned
    /\ fileNo = 2
    /\ Len(Trajectory) = 2
    /\ Trajectory[1].coordinates # Atoms
    /\ Len(Bonds) = 1


(***************************************************************************)
(* Properties of the vibration list (checked under SpecVib).               *)
(***************************************************************************)
Vibrations == combinedData.vibrations

\* Two frequencies closer than 0.1 cm^-1
Near(f, g) == ~isNaN(f) /\ ~isNaN(g) /\ Abs(f - g) < FreqTolerance

\* Two frequencies more than 0.1 cm^-1 apart
Apart(f, g) == Abs(f - g) > FreqTolerance

AllHessRows == HessRows \cup VibHessRows

C12_DistinctBeyondTolerance ==
    (pc = "returned") =>
        \A e, g \in supplied.entries :
            Apart(e[1], g[1]) =>
                \E j, k \in 1..Len(Vibrations) :
                    /\ j # k
                    /\ Near(Vibrations[j].frequency, e[1])
                    /\ Near(Vibrations[k].frequency, g[1])

C14_ModesUnique ==
    \A j, k \in 1..Len(Vibrations) :
        j # k => ~StrictEq(Vibrations[j].mode, Vibrations[k].mode)

\* C15: in the returned record every vibration has one displacement vector
\* per atom.
C15_VectorsMatchAtoms ==
    (pc = "returned") =>
        \A k \in 1..Len(Vibrations) : Len(Vibrations[k].vectors) = Len(combinedData.atoms)


Collections ==
    { "trajectory", "vibrations", "mullikenCharges", "loewdinCharges", "orbitals",
      "scfConvergence", "nmrShielding" }

\* C17: in the returned record, every collection of which no marker line
\* has occurred is there and is an empty list.
C17_NoDataIsEmptyList ==
    (pc = "returned") =>
        \A f \in Collections :
            f \notin supplied.markers =>
                (f \in DOMAIN combinedData /\ combinedData[f] = << >>)

\* C18: every file that is read goes to exactly one of the two parsers, and
\* to the hessian parser exactly when its name ends in .hess or its content
\* holds $ir_spectrum.
C18_RoutingRule ==
    [][ (fileNo' = fileNo + 1 /\ ~supplied'.readError) =>
            /\ pc' \in {"hessian", "output"}
            /\ (pc' = "hessian") <=> (fileName' = ".hess" \/ hasMarker') ]_allVars

\* The second file, named .out, holds $ir_spectrum and is parsed by the
\* hessian parser, which has taken a row from it; the first file was empty.
C18_Witness ==
    /\ pc = "hessian"
    /\ fileNo = 2
    /\ fileName = ".out"
    /\ hasMarker
    /\ linesRead = 3
    /\ Len(combinedData.vibrations) = 1

\* The single-valued fields of the returned record against what the files
\* supplied, in the order of the files.
LaterDipoleWins ==
    IF supplied.dipole = << >>
    THEN combinedData.dipoleMoment = << >>
    ELSE /\ combinedData.dipoleMoment # << >>
         /\ <<combinedData.dipoleMoment[1].x, combinedData.dipoleMoment[1].y,
              combinedData.dipoleMoment[1].z>> = supplied.dipole

LaterThermoWins ==
    /\ (supplied.thermo = << >>) <=> (combinedData.thermo = << >>)
    /\ \A k \in 1..Len(supplied.thermo) :
           combinedData.thermo[1][supplied.thermo[k][1]] = supplied.thermo[k][2]

LaterAtomsWin ==
    LET done == { k \in 1..Len(blocks) :
                      blocks[k].atoms # << >> /\ blocks[k].by \in {"blank", "header", "eof"} }
    IN  done # {} =>
            [k \in 1..Len(combinedData.atoms) |->
                <<combinedData.atoms[k].element, combinedData.atoms[k].x,
                  combinedData.atoms[k].y, combinedData.atoms[k].z>>]
              = blocks[CHOOSE k \in done : \A l \in done : l <= k].atoms

\* C19: a file is taken from the list only when no parser is at work, and
\* in the returned record the dipole moment, each thermochemistry field and
\* the atoms are those of the last file, in input order, that supplied them.
C19_SequentialLaterWins ==
    [][ /\ (fileNo' # fileNo) => (pc = "loop")
        /\ (pc' = "returned") =>
               (LaterDipoleWins' /\ LaterThermoWins' /\ LaterAtomsWin') ]_allVars

\* C20: the k-th atom of data.atoms and of every step's coordinates has
\* index k (0-based).
C20_AtomIndicesDense ==
    /\ \A k \in 1..Len(combinedData.atoms) : combinedData.atoms[k].index = k - 1
    /\ \A n \in 1..Len(combinedData.trajectory) :
           \A k \in 1..Len(combinedData.trajectory[n].coordinates) :
               combinedData.trajectory[n].coordinates[k].index = k - 1

\* Two steps of two atoms each.
C20_Witness ==
    /\ Len(combinedData.trajectory) = 2
    /\ Len(combinedData.trajectory[1].coordinates) = 2
    /\ Len(combinedData.trajectory[2].coordinates) = 2
    /\ Len(combinedData.atoms) = 2


(***************************************************************************)
(* Properties of the frontier orbitals (checked under SpecOrb).            *)
(***************************************************************************)
Orbitals == combinedData.orbitals

OccupiedAt == { k \in 1..Len(Orbitals) :
                    ~isNaN(Orbitals[k].occupancy) /\ Orbitals[k].occupancy > 0 }

\* The highest orbital number among the occupied orbitals
HighestOccupiedNo ==
    CHOOSE n \in { Orbitals[k].no : k \in OccupiedAt } :
        \A k \in OccupiedAt : Orbitals[k].no <= n

\* The orbital numbers ascend along the list, as the program prints them
OrbitalsAscending ==
    \A k \in 1..(Len(Orbitals) - 1) : Orbitals[k].no < Orbitals[k + 1].no

\* The orbital treated as HOMO has the highest number among the occupied
\* ones; the gap shown is there exactly when an orbital has that number plus
\* one, and is its energy minus the energy of that occupied orbital.
HomoLumoAsStated ==
    (pc = "returned" /\ OccupiedAt # {}) =>
        /\ homoIndex(Orbitals) = HighestOccupiedNo
        /\ (gap(Orbitals) # << >>)
               <=> (\E l \in 1..Len(Orbitals) : Orbitals[l].no = HighestOccupiedNo + 1)
        /\ gap(Orbitals) # << >> =>
               \E h \in OccupiedAt, l \in 1..Len(Orbitals) :
                   /\ Orbitals[h].no = HighestOccupiedNo
                   /\ Orbitals[l].no = HighestOccupiedNo + 1
                   /\ gap(Orbitals) = << Orbitals[l].energyEV - Orbitals[h].energyEV >>

\* C21: for the orbital list of every returned record in which an orbital is
\* occupied, the orbital treated as HOMO is the occupied one of the highest
\* number, the LUMO is the orbital of that number plus one, and the gap shown
\* is the energy of that LUMO minus the energy of that HOMO.
C21_HomoLumo == HomoLumoAsStated

\* The same for the lists whose orbital numbers ascend
HomoLumoWhenAscending == OrbitalsAscending => HomoLumoAsStated


(***************************************************************************)
(* Properties of the section states and the tables (checked under          *)
(* SpecSections).                                                          *)
(***************************************************************************)
\* The section states that are active
ActiveSections ==
    { n \in {"Coordinates", "IRTable", "MullikenCharges", "LoewdinCharges", "Orbitals"} :
        \/ n = "Coordinates" /\ inCoords
        \/ n = "IRTable" /\ readingIR
        \/ n = "MullikenCharges" /\ readingMulliken
        \/ n = "LoewdinCharges" /\ readingLoewdin
        \/ n = "Orbitals" /\ readingOrbitals }

\* C22: in every reachable state of the output scanner at most one of the
\* section states Coordinates, IRTable, MullikenCharges, LoewdinCharges and
\* Orbitals is active.
C22_OneSectionActive ==
    pc = "output" => Cardinality(ActiveSections) <= 1


\* The collection of a table section, by the kind of its marker line
CollectionOf(data, marker) ==
    CASE marker = "irStart"       -> data.vibrations
      [] marker = "mullikenStart" -> data.mullikenCharges
      [] marker = "loewdinStart"  -> data.loewdinCharges
      [] marker = "orbitalStart"  -> data.orbitals

TableMarkers == {"irStart", "mullikenStart", "loewdinStart", "orbitalStart"}

\* C23: when the scanner meets the marker of a table section, the section's
\* collection is emptied, so that it holds only records of rows that follow
\* the last occurrence of the marker (all vibration records of these
\* sessions come from IR tables of output files).
C23_MarkerReplaces ==
    [][ \A marker \in TableMarkers :
          ScanLine(<<marker>>) => CollectionOf(combinedData', marker) = << >> ]_allVars


\* In a record every numeric field holds a number
NumericVibration(v) == ~isNaN(v.mode) /\ ~isNaN(v.frequency) /\ ~isNaN(v.intensity)

NumericCharge(c) == ~isNaN(c.atomIndex) /\ ~isNaN(c.charge)

NumericOrbital(o) ==
    ~isNaN(o.no) /\ ~isNaN(o.occupancy) /\ ~isNaN(o.energyEh) /\ ~isNaN(o.energyEV)

\* The rows of the tables with the wrong field count or with a numeric field
\* that does not parse as a number
MalformedRows ==
    { <<"text">> }
        \cup { row \in SecIRRows : \E k \in 2..5 : isNaN(row[k]) }
        \cup { row \in SecChargeRows : isNaN(row[2]) \/ isNaN(row[4]) }

SectionFlags == <<inCoords, readingIR, readingMulliken, readingLoewdin, readingOrbitals>>

Tables == <<combinedData.vibrations, combinedData.mullikenCharges,
            combinedData.loewdinCharges, combinedData.orbitals>>

\* C24: a malformed row read inside a table section adds no record, leaves
\* the section states as they are and does not abort the parse, and every
\* record of the tables has numbers in all its numeric fields.
C24_MalformedRowsSkipped ==
    [][ /\ \A row \in MalformedRows :
             ScanLine(row) => /\ Tables' = Tables
                              /\ SectionFlags' = SectionFlags
                              /\ pc' = "output"
        /\ \A k \in 1..Len(combinedData'.vibrations) :
             NumericVibration(combinedData'.vibrations[k])
        /\ \A k \in 1..Len(combinedData'.mullikenCharges) :
             NumericCharge(combinedData'.mullikenCharges[k])
        /\ \A k \in 1..Len(combinedData'.loewdinCharges) :
             NumericCharge(combinedData'.loewdinCharges[k])
        /\ \A k \in 1..Len(combinedData'.orbitals) :
             NumericOrbital(combinedData'.orbitals[k]) ]_allVars


(***************************************************************************)
(* Properties of the dipole moment and the thermochemistry record (checked *)
(* under SpecMerge).                                                       *)
(***************************************************************************)
DipoleLines == { line \in MergeOutputLines : Kind(line) = "dipole" }

\* C25: once the scanner has gone past a dipole line of an output file,
\* whichever section is active and whatever line precedes it, the dipole
\* moment of the record holds the x, y, z of that line, the last one so far,
\* with the magnitude sqrt(x^2 + y^2 + z^2) (held as its square); the end
\* of the file leaves the dipole moment as it is.
C25_LastDipoleWins ==
    [][ \A line \in DipoleLines :
          (ScanLine(line) \/ SkipLine(line)) =>
              combinedData'.dipoleMoment =
                  << [x |-> line[2], y |-> line[3], z |-> line[4],
                      magnitudeSq |-> line[2] * line[2] + line[3] * line[3]
                                          + line[4] * line[4]] >> ]_allVars


ThermoLines == { line \in MergeOutputLines : Kind(line) = "thermo" }

ThermoFields == {"enthalpy", "entropy", "gibbsFreeEnergy", "zpe", "temperature"}

\* The record before a line, with the defaults when there is none yet
ThermoBefore ==
    IF combinedData.thermo = << >>
    THEN [enthalpy |-> 0, entropy |-> 0, gibbsFreeEnergy |-> 0, zpe |-> 0,
          temperature |-> 29815]
    ELSE combinedData.thermo[1]

\* A thermo line the scanner has examined sets its field and leaves the
\* other four as they were, or at their defaults in a new record.
ThermoLineApplied(line) ==
    /\ Len(combinedData'.thermo) = 1
    /\ combinedData'.thermo[1][line[2]] = line[3]
    /\ \A f \in ThermoFields \ {line[2]} :
           combinedData'.thermo[1][f] = ThermoBefore[f]

\* What the steps do to the record, for a given reading of when a line of
\* the text counts as matched
ThermoSteps(Matched(_)) ==
    /\ \A line \in ThermoLines : Matched(line) => ThermoLineApplied(line)
    /\ (~\E line \in ThermoLines : Matched(line)) =>
           combinedData'.thermo = combinedData.thermo

ThermoIncrementalEveryLine ==
    [][ ThermoSteps(LAMBDA line : ScanLine(line) \/ SkipLine(line)) ]_allVars


(***************************************************************************)
(* Properties of the hessian parser (checked under SpecBlocks).            *)
(***************************************************************************)
\* C27: in the hessian parser a line that opens another block or is '$end'
\* closes the $ir_spectrum block, and a row read outside the $ir_spectrum
\* block adds no vibration record, so that rows of other blocks never do.
C27_BlockBoundaries ==
    [][ /\ \A line \in { <<"$block">>, <<"$normal_modes">>, <<"$end">> } :
             HessLine(line) => section' # "ir_spectrum"
        /\ \A row \in BlockHessRows :
             (HessLine(row) /\ section # "ir_spectrum")
                 => combinedData'.vibrations = combinedData.vibrations ]_allVars


(***************************************************************************)
(* The atoms and the trajectory (checked under Spec).                      *)
(***************************************************************************)
\* The element and the coordinates of each atom of a list
Placed(atoms) ==
    [k \in 1..Len(atoms) |-> <<atoms[k].element, atoms[k].x, atoms[k].y, atoms[k].z>>]

\* C28: in every reachable state of a session, data.atoms is empty exactly
\* when data.trajectory is empty, otherwise data.atoms has the elements and
\* coordinates of the coordinates of the last trajectory step, and every
\* trajectory step has at least one atom.
C28_AtomsFollowTrajectory ==
    /\ (combinedData.atoms = << >>) <=> (Trajectory = << >>)
    /\ Trajectory # << >> =>
           Placed(combinedData.atoms) = Placed(Trajectory[Len(Trajectory)].coordinates)
    /\ \A k \in 1..Len(Trajectory) : Len(Trajectory[k].coordinates) >= 1

C28_Witness ==
    /\ Len(Trajectory) = 2
    /\ Placed(Trajectory[1].coordinates) = << <<H, 0, 0, 0>> >>
    /\ Placed(combinedData.atoms) = << <<H, 0, 0, 740>> >>


\* The fields of the record other than the vibration list and the bonds
OtherFields(data) ==
    <<data.atoms, data.trajectory, data.mullikenCharges, data.loewdinCharges,
      data.orbitals, data.scfConvergence, data.thermo, data.dipoleMoment>>

\* C29: every step of the parse of a hessian-classified file leaves atoms,
\* trajectory, Mulliken and Loewdin charges, orbitals, SCF trace,
\* thermochemistry and dipole moment unchanged, keeps the vibration records
\* that exist as they are, in place, and appends only records of
\* frequency > 0.
C29_HessianOnlyAppendsVibrations ==
    [][ pc = "hessian" =>
          /\ OtherFields(combinedData') = OtherFields(combinedData)
          /\ combinedData'.bonds = combinedData.bonds
          /\ Len(combinedData'.vibrations) >= Len(Vibrations)
          /\ SubSeq(combinedData'.vibrations, 1, Len(Vibrations)) = Vibrations
          /\ \A k \in (Len(Vibrations) + 1)..Len(combinedData'.vibrations) :
                 /\ ~isNaN(combinedData'.vibrations[k].frequency)
                 /\ combinedData'.vibrations[k].frequency > 0 ]_allVars

C29_Witness ==
    /\ pc = "hessian"
    /\ combinedData.dipoleMoment # << >>
    /\ Len(Vibrations) = 2
    /\ Vibrations[1].mode = 6 /\ Vibrations[1].frequency = 4492
    /\ Vibrations[2].mode = 7 /\ Vibrations[2].frequency = 160000


(***************************************************************************)
(* The order of an output file and its companion hessian file (checked     *)
(* under SpecOrders).                                                      *)
(***************************************************************************)
\* Every frequency of the one list is within the merge tolerance of a
\* frequency of the other
FrequenciesWithin(vs, ws) ==
    \A k \in 1..Len(vs) : \E j \in 1..Len(ws) : Near(vs[k].frequency, ws[j].frequency)

\* C30: for an output file and its companion hessian file, the sessions
\* [output, hessian] and [hessian, output] return vibration lists with the
\* same number of records and, up to the merge tolerance, the same set of
\* frequencies.
C30_OrderIndependent ==
    orders.parsed =>
        /\ Len(orders.outputFirst) = Len(orders.hessianFirst)
        /\ FrequenciesWithin(orders.outputFirst, orders.hessianFirst)
        /\ FrequenciesWithin(orders.hessianFirst, orders.outputFirst)

====
